---- MODULE Spec2Model ----
(***************************************************************************)
(* Model of Dependency_Identifier (src/src/instruction_dependency.hpp):    *)
(* the instruction tokenizer, the operand decoder driven by operand_map,   *)
(* and the three pairwise hazard scans (RAW, WAR, WAW).                     *)
(*                                                                         *)
(* A std::string is a sequence of one-character strings; the empty         *)
(* std::string "" is << >>.  Vector and string positions are 0-based as in *)
(* the source; At(v, n) is v[n].                                            *)
(***************************************************************************)
EXTENDS Integers, Sequences, FiniteSets, TLC

VARIABLES
    constructed,          \* has the constructor run
    _instructions,        \* std::vector<std::string>
    parsed_instructions,  \* std::vector<std::vector<std::string>>
    operand_map,          \* std::map<std::string, std::pair<int, std::vector<int>>>
    cout,                 \* the latest scan invocation: its kind, what it wrote to
                          \* std::cout, and whether that scan had been invoked before
    first_out,            \* per scan, what its first invocation wrote (none yet: << >>)
    last,                 \* the latest call of a private decoder method and its result
    thr                   \* the scan invocations in progress, one per thread

vars == <<constructed, _instructions, parsed_instructions, operand_map, cout, first_out, last, thr>>

scanner == <<_instructions, parsed_instructions, operand_map>>

-----------------------------------------------------------------------------
(* Bounds *)

MaxInstr == 3       \* instructions given to the constructor (sequential scans)
MaxOperands == 3    \* operand tokens after the opcode on a decoder input line
MaxConcInstr == 2   \* instructions given to the constructor (concurrent scans)
NThreads == 2       \* threads scanning concurrently

-----------------------------------------------------------------------------
(* Strings *)

npos == -1

At(v, n) == v[n + 1]

\* s.substr(pos, count): count is clipped to the end of the string
substr(s, pos, count) ==
    LET n == IF pos + count > Len(s) THEN Len(s) - pos ELSE count
    IN  [k \in 1..n |-> s[pos + k]]

find_first_not_of(s, set) ==
    LET hits == {p \in 0..(Len(s) - 1) : At(s, p) \notin set}
    IN  IF hits = {} THEN npos ELSE CHOOSE p \in hits : \A q \in hits : p <= q

find_last_not_of(s, set) ==
    LET hits == {p \in 0..(Len(s) - 1) : At(s, p) \notin set}
    IN  IF hits = {} THEN npos ELSE CHOOSE p \in hits : \A q \in hits : q <= p

TrimSet == {" ", "\t", "\n", "\r"}

trim(s) ==
    LET first == find_first_not_of(s, TrimSet)
    IN  IF first = npos
        THEN s
        ELSE LET lst == find_last_not_of(s, TrimSet)
             IN  substr(s, first, lst - first + 1)

LowerCase == <<"a","b","c","d","e","f","g","h","i","j","k","l","m",
               "n","o","p","q","r","s","t","u","v","w","x","y","z">>
UpperCase == <<"A","B","C","D","E","F","G","H","I","J","K","L","M",
               "N","O","P","Q","R","S","T","U","V","W","X","Y","Z">>

\* std::toupper in the "C" locale: a table from each lower-case letter to its
\* upper-case letter; every other character is returned unchanged
UpperMap ==
    [c \in {LowerCase[k] : k \in 1..Len(LowerCase)} |->
        UpperCase[CHOOSE k \in 1..Len(LowerCase) : LowerCase[k] = c]]

toupper(c) == IF c \in DOMAIN UpperMap THEN UpperMap[c] ELSE c

to_upper(s) == [k \in 1..Len(s) |-> toupper(s[k])]

\* std::replace(first, last, old, new)
replace(s, old, new) == [k \in 1..Len(s) |-> IF s[k] = old THEN new ELSE s[k]]

\* the characters operator>> treats as white space (std::isspace, "C" locale)
isspace(c) == c \in {" ", "\t", "\n", "\r", "\f"}

\* while (ss >> part) parts.push_back(trim(part)): pos is the stream position,
\* part the word being extracted (<< >> while leading white space is skipped)
RECURSIVE extract(_, _, _, _)
extract(s, pos, part, parts) ==
    IF pos >= Len(s)
    THEN IF part = << >> THEN parts ELSE Append(parts, trim(part))
    ELSE IF isspace(At(s, pos))
         THEN IF part = << >>
              THEN extract(s, pos + 1, << >>, parts)
              ELSE extract(s, pos + 1, << >>, Append(parts, trim(part)))
         ELSE extract(s, pos + 1, Append(part, At(s, pos)), parts)

\* parse_instruction without the replacement of ';'
parse_instruction_no_semicolon(instruction) ==
    LET s1 == replace(instruction, ",", " ")
        s3 == replace(s1, "(", " ")
        s4 == replace(s3, ")", " ")
    IN  extract(s4, 0, << >>, << >>)

parse_instruction(instruction) ==
    LET s1 == replace(instruction, ",", " ")
        s2 == replace(s1, ";", " ")
        s3 == replace(s2, "(", " ")
        s4 == replace(s3, ")", " ")
    IN  extract(s4, 0, << >>, << >>)

-----------------------------------------------------------------------------
(* The opcode table built by the constructor *)

Entry(dest, srcs) == [first |-> dest, second |-> srcs]

OperandTable ==
    LET three == Entry(1, <<2, 3>>)
        imm   == Entry(1, <<2>>)
        br    == Entry(0, <<1, 2>>)
    IN  (<<"A","D","D">> :> three) @@ (<<"A","D","D","I">> :> imm)
     @@ (<<"S","U","B">> :> three) @@ (<<"M","U","L">> :> three)
     @@ (<<"D","I","V">> :> three)
     @@ (<<"L","D">> :> Entry(1, << >>))
     @@ (<<"S","D">> :> Entry(0, <<1, 3>>))
     @@ (<<"D","A","D","D">> :> three) @@ (<<"D","A","D","D","I">> :> imm)
     @@ (<<"D","S","U","B">> :> three) @@ (<<"D","M","U","L">> :> three)
     @@ (<<"D","D","I","V">> :> three)
     @@ (<<"S","L","T">> :> three) @@ (<<"S","G","T">> :> three)
     @@ (<<"B","E","Q">> :> br) @@ (<<"B","N","E">> :> br)
     @@ (<<"B","L","T","Z">> :> br) @@ (<<"B","G","T","Z">> :> br)
     @@ (<<"B","G","E","Z">> :> br) @@ (<<"B","L","E","Z">> :> br)

EmptyMap == [k \in {} |-> Entry(0, << >>)]

-----------------------------------------------------------------------------
(* The operand decoder.  d is the scanner object: a record of its members. *)

self == [_instructions       |-> _instructions,
         parsed_instructions |-> parsed_instructions,
         operand_map         |-> operand_map]

\* get_destination_register with a missing opcode read as a default entry
\* whose destination is slot 1
get_destination_register_run_default(d, index) ==
    IF index >= Len(d.parsed_instructions) \/ At(d.parsed_instructions, index) = << >>
    THEN [ret |-> << >>, reads |-> {}]
    ELSE LET instruction_parts == At(d.parsed_instructions, index)
             opcode == to_upper(At(instruction_parts, 0))
             dest_index == IF opcode \in DOMAIN d.operand_map
                           THEN d.operand_map[opcode].first ELSE 1
         IN  IF dest_index > 0 /\ dest_index < Len(instruction_parts)
             THEN [ret |-> At(instruction_parts, dest_index), reads |-> {0, dest_index}]
             ELSE [ret |-> << >>, reads |-> {0}]

\* get_destination_register without the test dest_index > 0
get_destination_register_run_no_positive(d, index) ==
    IF index >= Len(d.parsed_instructions) \/ At(d.parsed_instructions, index) = << >>
    THEN [ret |-> << >>, reads |-> {}]
    ELSE LET instruction_parts == At(d.parsed_instructions, index)
             opcode == to_upper(At(instruction_parts, 0))
         IN  IF opcode \in DOMAIN d.operand_map
             THEN LET dest_index == d.operand_map[opcode].first
                  IN  IF dest_index < Len(instruction_parts)
                      THEN [ret   |-> At(instruction_parts, dest_index),
                            reads |-> {0, dest_index}]
                      ELSE [ret |-> << >>, reads |-> {0}]
             ELSE [ret |-> << >>, reads |-> {0}]

\* get_destination_register: the value returned and the positions of
\* instruction_parts the call reads
get_destination_register_run(d, index) ==
    IF index >= Len(d.parsed_instructions) \/ At(d.parsed_instructions, index) = << >>
    THEN [ret |-> << >>, reads |-> {}]
    ELSE LET instruction_parts == At(d.parsed_instructions, index)
             opcode == to_upper(At(instruction_parts, 0))
         IN  IF opcode \in DOMAIN d.operand_map
             THEN LET dest_index == d.operand_map[opcode].first
                  IN  IF dest_index > 0 /\ dest_index < Len(instruction_parts)
                      THEN [ret   |-> At(instruction_parts, dest_index),
                            reads |-> {0, dest_index}]
                      ELSE [ret |-> << >>, reads |-> {0}]
             ELSE [ret |-> << >>, reads |-> {0}]

get_destination_register(d, index) == get_destination_register_run(d, index).ret

\* the loop of get_source_registers over source_indices from position k on:
\* the slots whose token is pushed onto sources, in the order pushed
RECURSIVE source_slots(_, _, _)
source_slots(instruction_parts, source_indices, k) ==
    IF k >= Len(source_indices)
    THEN << >>
    ELSE LET src_index == At(source_indices, k)
             rest == source_slots(instruction_parts, source_indices, k + 1)
         IN  IF src_index > 0 /\ src_index < Len(instruction_parts)
             THEN <<src_index>> \o rest
             ELSE rest

\* get_source_registers: the slots read, in order; sources holds their tokens
get_source_slots(d, index) ==
    IF index >= Len(d.parsed_instructions) \/ At(d.parsed_instructions, index) = << >>
    THEN << >>
    ELSE LET instruction_parts == At(d.parsed_instructions, index)
             opcode == to_upper(At(instruction_parts, 0))
         IN  IF opcode \in DOMAIN d.operand_map
             THEN source_slots(instruction_parts, d.operand_map[opcode].second, 0)
             ELSE << >>

get_source_registers(d, index) ==
    LET slots == get_source_slots(d, index)
    IN  [k \in 1..Len(slots) |-> At(At(d.parsed_instructions, index), slots[k])]

get_source_registers_run(d, index) ==
    LET slots == get_source_slots(d, index)
        empty == index >= Len(d.parsed_instructions)
                 \/ At(d.parsed_instructions, index) = << >>
    IN  [ret   |-> get_source_registers(d, index),
         reads |-> IF empty THEN {} ELSE {0} \cup {slots[k] : k \in 1..Len(slots)}]

-----------------------------------------------------------------------------
(* What a scan writes to std::cout, one item per report block *)

Header(kind) == [t |-> "header", kind |-> kind]     \* "--- Identifying <kind> Dependencies ---"
NoInstructions == [t |-> "none"]                    \* "No instructions to analyze."
Footer == [t |-> "footer"]                          \* "--- Analysis Complete ---"

\* "<kind> Dependency Found:" and its two instruction lines.  reg_i and reg_j
\* are the registers printed on the first and the second line; slot is the
\* source slot whose token matched (0 for WAW, which matches no source slot),
\* which the report does not print.
Found(kind, d, i, reg_i, j, reg_j, slot) ==
    [t |-> "found", kind |-> kind,
     i |-> i, text_i |-> At(d._instructions, i), reg_i |-> reg_i,
     j |-> j, text_j |-> At(d._instructions, j), reg_j |-> reg_j,
     slot |-> slot]

-----------------------------------------------------------------------------
(* find_RAW_dependencies *)

\* the source loop writing its findings last slot first
RECURSIVE RAW_src_loop_reversed(_, _, _, _, _)
RAW_src_loop_reversed(d, i, dest_reg, j, k) ==
    LET src_regs == get_source_registers(d, j)
    IN  IF k >= Len(src_regs)
        THEN << >>
        ELSE RAW_src_loop_reversed(d, i, dest_reg, j, k + 1)
             \o (IF At(src_regs, k) = dest_reg
                 THEN <<Found("RAW", d, i, dest_reg, j, dest_reg, At(get_source_slots(d, j), k))>>
                 ELSE << >>)

\* for (const auto& src_reg : src_regs), from position k of src_regs on
RECURSIVE RAW_src_loop(_, _, _, _, _)
RAW_src_loop(d, i, dest_reg, j, k) ==
    LET src_regs == get_source_registers(d, j)
    IN  IF k >= Len(src_regs)
        THEN << >>
        ELSE (IF At(src_regs, k) = dest_reg
              THEN <<Found("RAW", d, i, dest_reg, j, dest_reg, At(get_source_slots(d, j), k))>>
              ELSE << >>)
             \o RAW_src_loop(d, i, dest_reg, j, k + 1)

\* for (size_t j = ...; j < parsed_instructions.size(); ++j)
RECURSIVE RAW_j_loop(_, _, _, _)
RAW_j_loop(d, i, dest_reg, j) ==
    IF j >= Len(d.parsed_instructions)
    THEN << >>
    ELSE RAW_src_loop(d, i, dest_reg, j, 0) \o RAW_j_loop(d, i, dest_reg, j + 1)

\* the outer loop with the inner loop starting at j = i
RECURSIVE RAW_i_loop_from_i(_, _)
RAW_i_loop_from_i(d, i) ==
    IF i >= Len(d.parsed_instructions)
    THEN << >>
    ELSE LET dest_reg == get_destination_register(d, i)
         IN  (IF dest_reg = << >> THEN << >> ELSE RAW_j_loop(d, i, dest_reg, i))
             \o RAW_i_loop_from_i(d, i + 1)

\* for (size_t i = ...; i < parsed_instructions.size(); ++i)
RECURSIVE RAW_i_loop(_, _)
RAW_i_loop(d, i) ==
    IF i >= Len(d.parsed_instructions)
    THEN << >>
    ELSE LET dest_reg == get_destination_register(d, i)
         IN  (IF dest_reg = << >> THEN << >> ELSE RAW_j_loop(d, i, dest_reg, i + 1))
             \o RAW_i_loop(d, i + 1)

\* the scan without the test for no instructions
RAW_output_no_empty_test(d) == <<Header("RAW")>> \o RAW_i_loop(d, 0) \o <<Footer>>

RAW_output(d) ==
    IF d.parsed_instructions = << >>
    THEN <<Header("RAW"), NoInstructions>>
    ELSE <<Header("RAW")>> \o RAW_i_loop(d, 0) \o <<Footer>>

-----------------------------------------------------------------------------
(* find_WAR_dependencies *)

\* the source loop with a break after the first finding
RECURSIVE WAR_src_loop_break(_, _, _, _, _)
WAR_src_loop_break(d, i, j, dest_reg_j, k) ==
    LET src_regs_i == get_source_registers(d, i)
    IN  IF k >= Len(src_regs_i)
        THEN << >>
        ELSE IF At(src_regs_i, k) = dest_reg_j
             THEN <<Found("WAR", d, i, At(src_regs_i, k), j, dest_reg_j,
                          At(get_source_slots(d, i), k))>>
             ELSE WAR_src_loop_break(d, i, j, dest_reg_j, k + 1)

RECURSIVE WAR_src_loop(_, _, _, _, _)
WAR_src_loop(d, i, j, dest_reg_j, k) ==
    LET src_regs_i == get_source_registers(d, i)
    IN  IF k >= Len(src_regs_i)
        THEN << >>
        ELSE (IF At(src_regs_i, k) = dest_reg_j
              THEN <<Found("WAR", d, i, At(src_regs_i, k), j, dest_reg_j,
                           At(get_source_slots(d, i), k))>>
              ELSE << >>)
             \o WAR_src_loop(d, i, j, dest_reg_j, k + 1)

RECURSIVE WAR_j_loop(_, _, _)
WAR_j_loop(d, i, j) ==
    IF j >= Len(d.parsed_instructions)
    THEN << >>
    ELSE LET dest_reg_j == get_destination_register(d, j)
         IN  (IF dest_reg_j = << >> THEN << >> ELSE WAR_src_loop(d, i, j, dest_reg_j, 0))
             \o WAR_j_loop(d, i, j + 1)

RECURSIVE WAR_i_loop(_, _)
WAR_i_loop(d, i) ==
    IF i >= Len(d.parsed_instructions)
    THEN << >>
    ELSE LET src_regs_i == get_source_registers(d, i)
         IN  (IF src_regs_i = << >> THEN << >> ELSE WAR_j_loop(d, i, i + 1))
             \o WAR_i_loop(d, i + 1)

WAR_output(d) ==
    IF d.parsed_instructions = << >>
    THEN <<Header("WAR"), NoInstructions>>
    ELSE <<Header("WAR")>> \o WAR_i_loop(d, 0) \o <<Footer>>

-----------------------------------------------------------------------------
(* find_WAW_dependencies *)

RECURSIVE WAW_j_loop(_, _, _, _)
WAW_j_loop(d, i, dest_reg_i, j) ==
    IF j >= Len(d.parsed_instructions)
    THEN << >>
    ELSE LET dest_reg_j == get_destination_register(d, j)
         IN  (IF dest_reg_i = dest_reg_j
              THEN <<Found("WAW", d, i, dest_reg_i, j, dest_reg_j, 0)>>
              ELSE << >>)
             \o WAW_j_loop(d, i, dest_reg_i, j + 1)

\* the outer loop without the test dest_reg_i.empty()
RECURSIVE WAW_i_loop_no_empty_test(_, _)
WAW_i_loop_no_empty_test(d, i) ==
    IF i >= Len(d.parsed_instructions)
    THEN << >>
    ELSE WAW_j_loop(d, i, get_destination_register(d, i), i + 1)
         \o WAW_i_loop_no_empty_test(d, i + 1)

RECURSIVE WAW_i_loop(_, _)
WAW_i_loop(d, i) ==
    IF i >= Len(d.parsed_instructions)
    THEN << >>
    ELSE LET dest_reg_i == get_destination_register(d, i)
         IN  (IF dest_reg_i = << >> THEN << >> ELSE WAW_j_loop(d, i, dest_reg_i, i + 1))
             \o WAW_i_loop(d, i + 1)

WAW_output(d) ==
    IF d.parsed_instructions = << >>
    THEN <<Header("WAW"), NoInstructions>>
    ELSE <<Header("WAW")>> \o WAW_i_loop(d, 0) \o <<Footer>>

-----------------------------------------------------------------------------
(* Inputs *)

SeqsUpTo(S, n) == UNION {[1..m -> S] : m \in 0..n}

SP == <<" ">>
COMMA == <<",">>
R1 == <<"R","1">>
R2 == <<"R","2">>
r1 == <<"r","1">>

\* Instruction lines for the scans: a self-read, a double read under a
\* lower-case opcode, a load and a store with address syntax (the store reads
\* r1, which is not R1), an unknown opcode, an empty line and a bare opcode.
ScanLines ==
    { <<"A","D","D">> \o SP \o R1 \o COMMA \o SP \o R1 \o COMMA \o SP \o R2,   \* ADD R1, R1, R2
      <<"s","u","b">> \o SP \o R2 \o COMMA \o SP \o R1 \o COMMA \o SP \o R1,   \* sub R2, R1, R1
      <<"L","D">> \o SP \o R1 \o COMMA \o SP \o <<"0","(">> \o R2 \o <<")">>,  \* LD R1, 0(R2)
      <<"S","D">> \o SP \o r1 \o COMMA \o SP \o <<"0","(">> \o R2 \o <<")">>,  \* SD r1, 0(R2)
      <<"F","O","O">> \o SP \o R1 \o COMMA \o SP \o R2,                        \* FOO R1, R2
      << >>,                                                                   \* (empty line)
      <<"A","D","D">> }                                                        \* ADD

ScanInputs == SeqsUpTo(ScanLines, MaxInstr)

tolower(c) ==
    IF \E k \in 1..Len(UpperCase) : UpperCase[k] = c
    THEN LowerCase[CHOOSE k \in 1..Len(UpperCase) : UpperCase[k] = c]
    ELSE c

\* Opcode spellings for single decoder lines: every table key in upper case,
\* in lower case and capitalised, and words that are no key.
DecoderOpcodes ==
    DOMAIN OperandTable
    \cup {[k \in 1..Len(o) |-> tolower(o[k])] : o \in DOMAIN OperandTable}
    \cup {[k \in 1..Len(o) |-> IF k = 1 THEN o[k] ELSE tolower(o[k])] : o \in DOMAIN OperandTable}
    \cup {<<"F","O","O">>, <<"A","D">>, <<"A","D","D","X">>, R1}

DecoderOperands == {R1, r1, R2}

RECURSIVE JoinOperands(_, _)
JoinOperands(ops, k) ==
    IF k > Len(ops) THEN << >>
    ELSE (IF k = 1 THEN SP ELSE COMMA \o SP) \o ops[k] \o JoinOperands(ops, k + 1)

\* Single lines for the decoder: OPCODE operand1, operand2, ... and lines that
\* hold no token, address syntax, stray delimiters and blanks.
DecoderLines ==
    {op \o JoinOperands(ops, 1) : op \in DecoderOpcodes, ops \in SeqsUpTo(DecoderOperands, MaxOperands)}
    \cup { << >>, <<" ">>, <<" ", "\t", " ">>, <<",", ";", "(", ")">>,
           <<"L","D">> \o SP \o R1 \o COMMA \o SP \o <<"0","(">> \o R2 \o <<")">>,
           <<"S","D">> \o SP \o R1 \o COMMA \o SP \o <<"0","(">> \o R2 \o <<")",";">>,
           <<" ","\t">> \o <<"B","E","Q">> \o SP \o R1 \o COMMA \o R2 \o COMMA \o <<"L","\n">>,
           <<"(">> \o R1 \o <<")">> \o <<"A","D","D">> }

DecoderInputs == {<<l>> : l \in DecoderLines}

-----------------------------------------------------------------------------
(* Operations *)

Kinds == {"RAW", "WAR", "WAW"}

Init ==
    /\ constructed = FALSE
    /\ _instructions = << >>
    /\ parsed_instructions = << >>
    /\ operand_map = EmptyMap
    /\ cout = [kind |-> "none", out |-> << >>, repeat |-> FALSE]
    /\ first_out = [kind \in Kinds |-> << >>]
    /\ last = [op |-> "none"]
    /\ thr = [t \in 1..NThreads |-> [pc |-> "idle"]]

\* for (const auto& inst : _instructions) parsed_instructions.push_back(...)
parse_all(instructions) ==
    [k \in 1..Len(instructions) |-> parse_instruction(instructions[k])]

\* the constructor: copy the lines, fill the table, parse every line
Dependency_Identifier(instructions) ==
    /\ ~constructed
    /\ constructed' = TRUE
    /\ _instructions' = instructions
    /\ operand_map' = OperandTable
    /\ parsed_instructions' = parse_all(instructions)
    /\ UNCHANGED <<cout, first_out, last, thr>>

\* a scan returns having written out to std::cout
Written(kind, out) ==
    /\ cout' = [kind |-> kind, out |-> out, repeat |-> first_out[kind] # << >>]
    /\ first_out' = IF first_out[kind] = << >>
                    THEN [first_out EXCEPT ![kind] = <<out>>]
                    ELSE first_out

find_RAW_dependencies ==
    /\ constructed
    /\ Written("RAW", RAW_output(self))
    /\ UNCHANGED <<constructed, scanner, last, thr>>

\* operand_map[opcode] for operand_map.find(opcode): a lookup of a missing
\* opcode inserts a default entry
Inserted(d) ==
    LET missing == {to_upper(At(d.parsed_instructions[k], 0)) :
                      k \in {m \in DOMAIN d.parsed_instructions : d.parsed_instructions[m] # << >>}}
                   \ DOMAIN d.operand_map
    IN  d.operand_map @@ [o \in missing |-> Entry(0, << >>)]

find_WAR_dependencies_inserting ==
    /\ constructed
    /\ Written("WAR", WAR_output(self))
    /\ operand_map' = Inserted(self)
    /\ UNCHANGED <<constructed, _instructions, parsed_instructions, last, thr>>

find_WAR_dependencies ==
    /\ constructed
    /\ Written("WAR", WAR_output(self))
    /\ UNCHANGED <<constructed, scanner, last, thr>>

find_WAW_dependencies ==
    /\ constructed
    /\ Written("WAW", WAW_output(self))
    /\ UNCHANGED <<constructed, scanner, last, thr>>

Next ==
    \/ \E instructions \in ScanInputs : Dependency_Identifier(instructions)
    \/ find_RAW_dependencies
    \/ find_WAR_dependencies
    \/ find_WAW_dependencies

Spec == Init /\ [][Next]_vars

-----------------------------------------------------------------------------
(* The decoder's private methods, called one at a time on a one-line scanner *)

MaxIndex == 1   \* index arguments 0..MaxIndex: the line, and one past the end

call_get_destination_register(index) ==
    /\ constructed
    /\ last' = [op |-> "get_destination_register", index |-> index]
               @@ get_destination_register_run(self, index)
    /\ UNCHANGED <<constructed, scanner, cout, first_out, thr>>

call_get_source_registers(index) ==
    /\ constructed
    /\ last' = [op |-> "get_source_registers", index |-> index]
               @@ get_source_registers_run(self, index)
    /\ UNCHANGED <<constructed, scanner, cout, first_out, thr>>

NextDecoder ==
    \/ \E instructions \in DecoderInputs : Dependency_Identifier(instructions)
    \/ \E index \in 0..MaxIndex : call_get_destination_register(index)
    \/ \E index \in 0..MaxIndex : call_get_source_registers(index)

SpecDecoder == Init /\ [][NextDecoder]_vars

-----------------------------------------------------------------------------
(* Concurrent scans: each thread runs one scan invocation, a step at a time.
   A step is the code between two loop heads; i, j, dest_reg and src_regs_i are
   the invocation's locals and out is what it has written to std::cout. *)

ConcLines ==
    { <<"A","D","D">> \o SP \o R1 \o COMMA \o SP \o R1 \o COMMA \o SP \o R2,   \* ADD R1, R1, R2
      <<"F","O","O">> \o SP \o R1 \o COMMA \o SP \o R2 }                       \* FOO R1, R2

ConcInputs == SeqsUpTo(ConcLines, MaxConcInstr)

Threads == 1..NThreads

Local(t, pc, i, j, dest_reg, src_regs_i, out) ==
    [pc |-> pc, kind |-> thr[t].kind, i |-> i, j |-> j,
     dest_reg |-> dest_reg, src_regs_i |-> src_regs_i, out |-> out]

\* the call: the header, then the test for no instructions
scan_begin(t, kind) ==
    /\ constructed
    /\ thr[t].pc = "idle"
    /\ thr' = [thr EXCEPT ![t] =
                 IF parsed_instructions = << >>
                 THEN [pc |-> "done", kind |-> kind, i |-> 0, j |-> 0,
                       dest_reg |-> << >>, src_regs_i |-> << >>,
                       out |-> <<Header(kind), NoInstructions>>]
                 ELSE [pc |-> "i_loop", kind |-> kind, i |-> 0, j |-> 0,
                       dest_reg |-> << >>, src_regs_i |-> << >>,
                       out |-> <<Header(kind)>>]]
    /\ UNCHANGED <<constructed, scanner, cout, first_out, last>>

\* the step with operand_map[opcode] for operand_map.find(opcode)
dest_i_step_inserting(t) ==
    /\ thr[t].pc = "i_loop"
    /\ thr[t].kind \in {"RAW", "WAW"}
    /\ LET i == thr[t].i
           dest_reg == get_destination_register(self, i)
       IN  thr' = [thr EXCEPT ![t] =
                 IF i >= Len(parsed_instructions)
                 THEN Local(t, "done", i, 0, << >>, << >>, Append(thr[t].out, Footer))
                 ELSE IF dest_reg = << >>
                 THEN Local(t, "i_loop", i + 1, 0, << >>, << >>, thr[t].out)
                 ELSE Local(t, "j_loop", i, i + 1, dest_reg, << >>, thr[t].out)]
    /\ operand_map' = Inserted(self)
    /\ UNCHANGED <<constructed, _instructions, parsed_instructions, cout, first_out, last>>

\* the head of the outer loop of find_RAW_dependencies and of
\* find_WAW_dependencies: the footer after the last i, else the destination of i
dest_i_step(t) ==
    /\ thr[t].pc = "i_loop"
    /\ thr[t].kind \in {"RAW", "WAW"}
    /\ LET i == thr[t].i
           dest_reg == get_destination_register(self, i)
       IN  thr' = [thr EXCEPT ![t] =
                 IF i >= Len(parsed_instructions)
                 THEN Local(t, "done", i, 0, << >>, << >>, Append(thr[t].out, Footer))
                 ELSE IF dest_reg = << >>
                 THEN Local(t, "i_loop", i + 1, 0, << >>, << >>, thr[t].out)
                 ELSE Local(t, "j_loop", i, i + 1, dest_reg, << >>, thr[t].out)]
    /\ UNCHANGED <<constructed, scanner, cout, first_out, last>>

\* the head of the outer loop of find_WAR_dependencies: the sources of i
src_i_step(t) ==
    /\ thr[t].pc = "i_loop"
    /\ thr[t].kind = "WAR"
    /\ LET i == thr[t].i
           src_regs_i == get_source_registers(self, i)
       IN  thr' = [thr EXCEPT ![t] =
                 IF i >= Len(parsed_instructions)
                 THEN Local(t, "done", i, 0, << >>, << >>, Append(thr[t].out, Footer))
                 ELSE IF src_regs_i = << >>
                 THEN Local(t, "i_loop", i + 1, 0, << >>, << >>, thr[t].out)
                 ELSE Local(t, "j_loop", i, i + 1, << >>, src_regs_i, thr[t].out)]
    /\ UNCHANGED <<constructed, scanner, cout, first_out, last>>

\* what one pass of the inner loop writes, for each scan
j_body(kind, d, i, j, dest_reg) ==
    IF kind = "RAW" THEN RAW_src_loop(d, i, dest_reg, j, 0)
    ELSE IF kind = "WAR"
    THEN LET dest_reg_j == get_destination_register(d, j)
         IN  IF dest_reg_j = << >> THEN << >> ELSE WAR_src_loop(d, i, j, dest_reg_j, 0)
    ELSE LET dest_reg_j == get_destination_register(d, j)
         IN  IF dest_reg = dest_reg_j
             THEN <<Found("WAW", d, i, dest_reg, j, dest_reg_j, 0)>>
             ELSE << >>

\* the head of the inner loop: back to the outer loop after the last j, else
\* one pass over instruction j
j_step(t) ==
    /\ thr[t].pc = "j_loop"
    /\ LET i == thr[t].i
           j == thr[t].j
       IN  thr' = [thr EXCEPT ![t] =
                 IF j >= Len(parsed_instructions)
                 THEN Local(t, "i_loop", i + 1, 0, << >>, << >>, thr[t].out)
                 ELSE Local(t, "j_loop", i, j + 1, thr[t].dest_reg, thr[t].src_regs_i,
                            thr[t].out \o j_body(thr[t].kind, self, i, j, thr[t].dest_reg))]
    /\ UNCHANGED <<constructed, scanner, cout, first_out, last>>

NextConc ==
    \/ \E instructions \in ConcInputs : Dependency_Identifier(instructions)
    \/ \E t \in Threads, kind \in Kinds : scan_begin(t, kind)
    \/ \E t \in Threads : dest_i_step(t)
    \/ \E t \in Threads : src_i_step(t)
    \/ \E t \in Threads : j_step(t)

SpecConc == Init /\ [][NextConc]_vars

-----------------------------------------------------------------------------
(* Vocabulary of the properties: operand roles read off the opcode table *)

Tokens(i) == At(parsed_instructions, i)

N == Len(parsed_instructions)

Indices == 0..(N - 1)

Range(f) == {f[x] : x \in DOMAIN f}

Recognized(tokens) == tokens # << >> /\ to_upper(tokens[1]) \in DOMAIN OperandTable

\* the destination slot from the table is there and within the tokens
HasDestination(tokens) ==
    /\ Recognized(tokens)
    /\ OperandTable[to_upper(tokens[1])].first # 0
    /\ OperandTable[to_upper(tokens[1])].first < Len(tokens)

Destination(tokens) == tokens[OperandTable[to_upper(tokens[1])].first + 1]

\* the configured source slots that are within the tokens
SourceSlots(tokens) ==
    IF Recognized(tokens)
    THEN {s \in Range(OperandTable[to_upper(tokens[1])].second) : s < Len(tokens)}
    ELSE {}

\* every source slot the table configures
Slots == UNION {Range(OperandTable[o].second) : o \in DOMAIN OperandTable}

\* the dependency records of a report, in the order written
Records(out) == SelectSeq(out, LAMBDA item : item.t = "found")

\* how many records of a report are (kind, i, j, register) found through slot
Count(out, kind, i, j, reg, slot) ==
    Cardinality({p \in 1..Len(out) :
        /\ out[p].t = "found"
        /\ out[p].kind = kind
        /\ out[p].i = i /\ out[p].j = j
        /\ out[p].reg_i = reg /\ out[p].reg_j = reg
        /\ out[p].text_i = At(_instructions, i) /\ out[p].text_j = At(_instructions, j)
        /\ out[p].slot = slot})

\* C1: in every RAW report there is exactly one record (i, j, r) per triple
\* (i, j, source slot s of j) with i < j, r the destination register of i and
\* the token of j at the in-bounds slot s equal to r, and no other record; so
\* every record has i < j.
RAWTriples ==
    {<<i, j, s>> \in Indices \X Indices \X Slots :
        /\ i < j
        /\ HasDestination(Tokens(i))
        /\ s \in SourceSlots(Tokens(j))
        /\ At(Tokens(j), s) = Destination(Tokens(i))}

C1_RAW_exact ==
    cout.kind = "RAW" =>
        LET recs == Records(cout.out)
        IN  /\ \A p \in 1..Len(recs) :
                 /\ <<recs[p].i, recs[p].j, recs[p].slot>> \in RAWTriples
                 /\ recs[p].i < recs[p].j
            /\ \A tr \in RAWTriples :
                 Count(cout.out, "RAW", tr[1], tr[2], Destination(Tokens(tr[1])), tr[3]) = 1
            /\ Len(recs) = Cardinality(RAWTriples)

\* a RAW report over a program in which an instruction reads its own
\* destination and a later one reads it through two slots (two records)
C1_witness ==
    /\ cout.kind = "RAW"
    /\ \E i \in Indices :
         /\ HasDestination(Tokens(i))
         /\ \E s \in SourceSlots(Tokens(i)) : At(Tokens(i), s) = Destination(Tokens(i))
         /\ \E j \in Indices : {<<i, j, 2>>, <<i, j, 3>>} \subseteq RAWTriples

\* C2: in every WAR report there is exactly one record (i, j, r) per triple
\* (i, j, source slot s of i) with i < j, r the destination register of j and
\* the token of i at the in-bounds slot s equal to r, and no other record.
WARTriples ==
    {<<i, j, s>> \in Indices \X Indices \X Slots :
        /\ i < j
        /\ HasDestination(Tokens(j))
        /\ s \in SourceSlots(Tokens(i))
        /\ At(Tokens(i), s) = Destination(Tokens(j))}

C2_WAR_exact ==
    cout.kind = "WAR" =>
        LET recs == Records(cout.out)
        IN  /\ \A p \in 1..Len(recs) :
                 /\ <<recs[p].i, recs[p].j, recs[p].slot>> \in WARTriples
                 /\ SourceSlots(Tokens(recs[p].i)) # {}
                 /\ HasDestination(Tokens(recs[p].j))
            /\ \A tr \in WARTriples :
                 Count(cout.out, "WAR", tr[1], tr[2], Destination(Tokens(tr[2])), tr[3]) = 1
            /\ Len(recs) = Cardinality(WARTriples)

\* a WAR report with a record, over a program that also holds an earlier
\* instruction without sources and a later one without destination
C2_witness ==
    /\ cout.kind = "WAR"
    /\ Records(cout.out) # << >>
    /\ \E i, j \in Indices :
         i < j /\ SourceSlots(Tokens(i)) = {} /\ HasDestination(Tokens(j))
    /\ \E i, j \in Indices :
         i < j /\ SourceSlots(Tokens(i)) # {} /\ ~HasDestination(Tokens(j))

\* C3: in every WAW report there is exactly one record (i, j, r) per pair
\* i < j of instructions that both have a destination register, the two equal
\* (r), and no other record; none for a pair with a side without destination.
WAWPairs ==
    {<<i, j>> \in Indices \X Indices :
        /\ i < j
        /\ HasDestination(Tokens(i))
        /\ HasDestination(Tokens(j))
        /\ Destination(Tokens(i)) = Destination(Tokens(j))}

C3_WAW_exact ==
    cout.kind = "WAW" =>
        LET recs == Records(cout.out)
        IN  /\ \A p \in 1..Len(recs) :
                 /\ <<recs[p].i, recs[p].j>> \in WAWPairs
                 /\ HasDestination(Tokens(recs[p].i))
                 /\ HasDestination(Tokens(recs[p].j))
            /\ \A pr \in WAWPairs :
                 Count(cout.out, "WAW", pr[1], pr[2], Destination(Tokens(pr[1])), 0) = 1
            /\ Len(recs) = Cardinality(WAWPairs)

\* a WAW report with a record, over a program in which an instruction with a
\* destination is followed by a recognized one that the table gives a
\* destination slot, out of bounds for its tokens
C3_witness ==
    /\ cout.kind = "WAW"
    /\ Records(cout.out) # << >>
    /\ \E i, j \in Indices :
         /\ i < j
         /\ HasDestination(Tokens(i))
         /\ Recognized(Tokens(j))
         /\ OperandTable[to_upper(Tokens(j)[1])].first # 0
         /\ ~HasDestination(Tokens(j))

\* C4: in every report the records are in lexicographic order: ascending i,
\* then ascending j, then, within a pair, the order in which the table declares
\* the matching source slots (of j for RAW, of i for WAR).
DeclaredPos(tokens, slot) ==
    LET decl == OperandTable[to_upper(tokens[1])].second
    IN  IF slot \in Range(decl) THEN CHOOSE k \in DOMAIN decl : decl[k] = slot ELSE 0

Key(rec) ==
    <<rec.i, rec.j,
      IF rec.kind = "RAW" THEN DeclaredPos(Tokens(rec.j), rec.slot)
      ELSE IF rec.kind = "WAR" THEN DeclaredPos(Tokens(rec.i), rec.slot)
      ELSE 0>>

LexLess(a, b) ==
    \/ a[1] < b[1]
    \/ a[1] = b[1] /\ a[2] < b[2]
    \/ a[1] = b[1] /\ a[2] = b[2] /\ a[3] < b[3]

C4_order ==
    cout.kind # "none" =>
        LET recs == Records(cout.out)
        IN  \A p, q \in 1..Len(recs) : p < q => LexLess(Key(recs[p]), Key(recs[q]))

\* a report with two records of one pair followed by a record of a later i
C4_witness ==
    /\ cout.kind # "none"
    /\ LET recs == Records(cout.out)
       IN  \E p, q, r \in 1..Len(recs) :
             /\ p < q /\ q < r
             /\ recs[p].i = recs[q].i /\ recs[p].j = recs[q].j
             /\ recs[q].i < recs[r].i

\* C5: once the scanner is constructed no step changes _instructions,
\* parsed_instructions or operand_map, and every invocation of a scan writes
\* what the first invocation of that scan wrote, whatever ran in between.
C5_idempotent ==
    [][constructed =>
         /\ scanner' = scanner
         /\ cout'.kind # "none" => first_out'[cout'.kind] = <<cout'.out>>]_vars

\* a repeated invocation, after all three scans have run, that reports a record
C5_witness ==
    /\ cout.repeat
    /\ \A kind \in Kinds : first_out[kind] # << >>
    /\ Records(cout.out) # << >>

-----------------------------------------------------------------------------
(* Properties that compare a report with the report of another program *)

\* the scanner the constructor builds from instructions
Fresh(instructions) ==
    [_instructions       |-> instructions,
     parsed_instructions |-> parse_all(instructions),
     operand_map         |-> OperandTable]

Output(kind, d) ==
    IF kind = "RAW" THEN RAW_output(d)
    ELSE IF kind = "WAR" THEN WAR_output(d)
    ELSE WAW_output(d)

\* seq without its element at 0-based position k
Remove(seq, k) == [m \in 1..(Len(seq) - 1) |-> IF m <= k THEN seq[m] ELSE seq[m + 1]]

\* an index of the program without line k, as an index of the program with it
Shift(m, k) == IF m >= k THEN m + 1 ELSE m

Renumber(recs, k) ==
    [p \in 1..Len(recs) |-> [recs[p] EXCEPT !.i = Shift(@, k), !.j = Shift(@, k)]]

Unknown(tokens) == tokens # << >> /\ ~Recognized(tokens)

\* C7: a line whose first token is no key of the table has no destination and
\* no sources and is on neither side of any record, and the records reported
\* are the records reported for the program without that line, with the
\* indices after it moved up by one.
C7_unknown_opcode ==
    cout.kind # "none" =>
        \A k \in Indices :
            Unknown(Tokens(k)) =>
                /\ get_destination_register(self, k) = << >>
                /\ get_source_registers(self, k) = << >>
                /\ \A p \in 1..Len(cout.out) :
                     cout.out[p].t = "found" => cout.out[p].i # k /\ cout.out[p].j # k
                /\ Records(cout.out) =
                     Renumber(Records(Output(cout.kind, Fresh(Remove(_instructions, k)))), k)

\* a report with a record between an instruction before and an instruction
\* after a line with an unknown opcode
C7_witness ==
    /\ cout.kind # "none"
    /\ \E k \in Indices :
         /\ Unknown(Tokens(k))
         /\ \E p \in 1..Len(cout.out) :
              cout.out[p].t = "found" /\ cout.out[p].i < k /\ k < cout.out[p].j

HazardFree(kind) ==
    IF kind = "RAW" THEN RAWTriples = {}
    ELSE IF kind = "WAR" THEN WARTriples = {}
    ELSE WAWPairs = {}

\* C8: on a scanner constructed with zero instructions every scan reports the
\* header and "no instructions to analyze", and no record; with at least one
\* instruction it never reports "no instructions to analyze", and with no
\* hazard of its kind it reports the header and the footer and nothing else.
C8_empty_input ==
    cout.kind # "none" =>
        /\ Len(_instructions) = 0 => cout.out = <<Header(cout.kind), NoInstructions>>
        /\ Len(_instructions) > 0 =>
             /\ \A p \in 1..Len(cout.out) : cout.out[p] # NoInstructions
             /\ HazardFree(cout.kind) => cout.out = <<Header(cout.kind), Footer>>

\* all three scans have run on a scanner constructed with zero instructions
C8_witness ==
    /\ constructed
    /\ Len(_instructions) = 0
    /\ \A kind \in Kinds : first_out[kind] # << >>

\* the other side of C8: a scan has run over lines that are all empty or unrecognized
C8_nonempty_reached ==
    /\ cout.kind # "none"
    /\ Len(_instructions) > 1
    /\ \A k \in Indices : ~Recognized(Tokens(k))
    /\ \E k \in Indices : Tokens(k) = << >>

-----------------------------------------------------------------------------
(* Properties of the tokenizer and the decoder *)

Delimiters == {",", ";", "(", ")"}

Blank(c) == isspace(c) \/ c \in Delimiters

\* C6 as stated: a line that is empty, or whose first token (upper-cased) is no
\* key of the opcode table, is tokenized to the empty sequence.
C6_as_stated ==
    \A k \in Indices :
        (At(_instructions, k) = << >> \/ ~Recognized(Tokens(k))) => Tokens(k) = << >>

RECURSIVE Flatten(_)
Flatten(words) == IF words = << >> THEN << >> ELSE Head(words) \o Flatten(Tail(words))

\* C6 amended: a line is tokenized to the empty sequence exactly when it holds
\* nothing but white space and delimiters (so when it is empty); otherwise its
\* tokens are the non-empty words between them, in order, free of blanks and
\* delimiters, whether or not the first is a key of the opcode table.
C6_tokenize_empty ==
    \A k \in Indices :
        /\ Tokens(k) = << >> <=> \A c \in Range(At(_instructions, k)) : Blank(c)
        /\ \A w \in Range(Tokens(k)) : w # << >> /\ \A c \in Range(w) : ~Blank(c)
        /\ Flatten(Tokens(k)) = SelectSeq(At(_instructions, k), LAMBDA c : ~Blank(c))

\* a line with an unknown opcode, tokenized to its words
C6_witness ==
    /\ constructed
    /\ \E k \in Indices : Unknown(Tokens(k)) /\ Len(Tokens(k)) > 1

\* C9: get_destination_register returns no register when the tokens are empty,
\* the opcode (upper-cased) is no key, the table's destination slot is none or
\* is not below the token count, and tokens[slot] unchanged otherwise;
\* get_source_registers returns the tokens at the configured source slots below
\* the token count, in the declared order; neither reads a token position
\* outside the tokens.
InBoundsSources(tokens) ==
    IF Recognized(tokens)
    THEN LET kept == SelectSeq(OperandTable[to_upper(tokens[1])].second,
                               LAMBDA s : s < Len(tokens))
         IN  [k \in 1..Len(kept) |-> tokens[kept[k] + 1]]
    ELSE << >>

C9_decoder ==
    last.op # "none" =>
        LET tokens == IF last.index < N THEN Tokens(last.index) ELSE << >>
        IN  /\ last.reads \subseteq 0..(Len(tokens) - 1)
            /\ last.op = "get_destination_register" =>
                 last.ret = IF HasDestination(tokens) THEN Destination(tokens) ELSE << >>
            /\ last.op = "get_source_registers" =>
                 last.ret = InBoundsSources(tokens)

\* get_source_registers has run on a recognized line with two configured
\* source slots of which one is out of bounds, and returned one register
C9_witness ==
    /\ last.op = "get_source_registers"
    /\ last.index < N
    /\ Recognized(Tokens(last.index))
    /\ Len(OperandTable[to_upper(Tokens(last.index)[1])].second) = 2
    /\ Len(last.ret) = 1

\* get_destination_register has run on a recognized line whose destination
\* slot is out of bounds, and on one whose destination is in lower case
C9_dest_oob_reached ==
    /\ last.op = "get_destination_register"
    /\ last.index < N
    /\ Recognized(Tokens(last.index))
    /\ OperandTable[to_upper(Tokens(last.index)[1])].first >= Len(Tokens(last.index))

C9_dest_verbatim_reached ==
    /\ last.op = "get_destination_register"
    /\ last.ret = r1

-----------------------------------------------------------------------------
(* Concurrent scans *)

\* C10: whatever the interleaving of the threads' steps, no step changes
\* _instructions, parsed_instructions or operand_map, and an invocation that
\* has returned has written what that scan writes when it runs alone.
C10_concurrent ==
    [][constructed =>
         /\ scanner' = scanner
         /\ \A t \in Threads :
              thr'[t].pc = "done" => thr'[t].out = Output(thr'[t].kind, self')]_vars

\* every thread has returned from a scan that reported a record, and two
\* threads ran different scans
C10_witness ==
    /\ \A t \in Threads : thr[t].pc = "done" /\ Records(thr[t].out) # << >>
    /\ \E t, u \in Threads : thr[t].kind # thr[u].kind

====
